---- MODULE Spec2Model ----
(***************************************************************************)
(* A model of tools/configure_icu.py: the script that downloads (or is     *)
(* given) an ICU source archive, verifies its MD5 checksum against the     *)
(* published manifest, extracts it below <icu-root>/icu and, on Windows,   *)
(* writes Chakra.ICU.props from the Makefile.in fragments of five ICU      *)
(* components.                                                             *)
(*                                                                         *)
(* Python strings are modelled as sequences of one-character strings, so   *)
(* that slicing, strip(), split(), the % operator and the os.path          *)
(* functions are computed as Python computes them.  The file system is a   *)
(* variable: a map from the paths of regular files to their contents and   *)
(* the set of the paths of directories.                                    *)
(***************************************************************************)
EXTENDS Integers, Sequences, FiniteSets, TLC

VARIABLES
    os_name,    \* os.name: "nt" or "posix"
    fs,         \* the file system: [files: path -> content, dirs: set of paths]
    call,       \* the function applied by a harness action, with its arguments
    ret,        \* what that call returned or raised; NotCalled before the call
    args,       \* main: the parsed command line [yes, version, icu_root, archive]
    pc,         \* the place the process is at
    fs0,        \* the file system as it was when the process started
    prompts,    \* the number of license prompts shown
    response,   \* the answer typed at the prompt; NoResponse before
    requests,   \* the URLs requested over the network, in order
    download,   \* the content of the temporary file urlretrieve wrote
    checksum,   \* download_icu: the MD5 hex digest of the downloaded archive
    md5s,       \* download_icu: the lines of the manifest fetched
    archive_path, \* main: the archive handed to extract_icu
    calls,      \* the calls of download_icu and extract_icu made, in order
    dep_i,      \* create_msvc_props: the number of components processed
    exit        \* how the process ended; NotCalled while it runs

pureVars == <<os_name, fs, call, ret>>

mainVars == <<args, pc, fs0, prompts, response, requests, download, checksum,
              md5s, archive_path, calls, dep_i, exit>>

vars == <<os_name, fs, call, ret, args, pc, fs0, prompts, response, requests,
          download, checksum, md5s, archive_path, calls, dep_i, exit>>

-----------------------------------------------------------------------------
(* Python built-ins on strings *)

\* Every operator that reads a parameter more than once first names its value
\* in a LET, so that it is evaluated once.

Range(s) == {s[i] : i \in 1..Len(s)}

\* s[:n] for n >= 0
Take(s, n) == LET q == s IN SubSeq(q, 1, IF n < Len(q) THEN n ELSE Len(q))

\* s[n:] for n >= 0
Drop(s, n) == LET q == s IN SubSeq(q, n + 1, Len(q))

\* s[k:] for any integer k: a negative k counts from the end, clamped at 0
PySliceFrom(s, k) == LET q == s
                     IN IF k >= 0 THEN Drop(q, k)
                        ELSE IF Len(q) + k > 0 THEN Drop(q, Len(q) + k) ELSE q

\* whether s[k] (0-based, negative k from the end) is in range
PyIndexOk(s, k) == IF k >= 0 THEN k < Len(s) ELSE -k <= Len(s)

\* s[k] (0-based, negative k from the end), for k in range
PyIndex(s, k) == LET q == s IN IF k >= 0 THEN q[k + 1] ELSE q[Len(q) + k + 1]

\* string.whitespace
IsSpace(c) == c \in {" ", "\t", "\n", "\r", "\f"}

\* the index of the first character of s at or after i that is not whitespace,
\* Len(s) + 1 if there is none
RECURSIVE FirstNonSpace(_, _)
FirstNonSpace(s, i) ==
    IF i > Len(s) THEN i ELSE IF IsSpace(s[i]) THEN FirstNonSpace(s, i + 1) ELSE i

\* the index of the last character of s at or before i that is not whitespace,
\* 0 if there is none
RECURSIVE LastNonSpace(_, _)
LastNonSpace(s, i) ==
    IF i < 1 THEN 0 ELSE IF IsSpace(s[i]) THEN LastNonSpace(s, i - 1) ELSE i

\* the index of the first whitespace character of s at or after i, Len(s) + 1
\* if there is none
RECURSIVE FirstSpace(_, _)
FirstSpace(s, i) ==
    IF i > Len(s) THEN i ELSE IF IsSpace(s[i]) THEN i ELSE FirstSpace(s, i + 1)

\* str.strip()
strip(s) == LET q == s IN SubSeq(q, FirstNonSpace(q, 1), LastNonSpace(q, Len(q)))

\* str.split() from index i on: the maximal runs of non-whitespace characters
RECURSIVE split_from(_, _)
split_from(s, i) ==
    LET b == FirstNonSpace(s, i)
        e == FirstSpace(s, b)
    IN IF b > Len(s) THEN <<>> ELSE <<SubSeq(s, b, e - 1)>> \o split_from(s, e)

\* str.split()
split_ws(s) == LET q == s IN split_from(q, 1)

\* the index of the first c in s at or after i, Len(s) + 1 if there is none
RECURSIVE FirstChar(_, _, _)
FirstChar(s, c, i) ==
    IF i > Len(s) THEN i ELSE IF s[i] = c THEN i ELSE FirstChar(s, c, i + 1)

\* str.split(c) from index i on, for a one-character c: empty pieces are kept
RECURSIVE split_on_from(_, _, _)
split_on_from(s, c, i) ==
    LET e == FirstChar(s, c, i)
    IN IF e > Len(s) THEN <<SubSeq(s, i, Len(s))>>
       ELSE <<SubSeq(s, i, e - 1)>> \o split_on_from(s, c, e + 1)

\* str.split(c)
split_on(s, c) == LET q == s IN split_on_from(q, c, 1)

\* str.replace(a, b) for one-character a and b
replace(s, a, b) == LET q == s IN [i \in 1..Len(q) |-> IF q[i] = a THEN b ELSE q[i]]

\* sep.join(items)
RECURSIVE join(_, _)
join(sepstr, items) ==
    IF items = <<>> THEN <<>>
    ELSE IF Len(items) = 1 THEN items[1]
         ELSE items[1] \o sepstr \o join(sepstr, Tail(items))

\* the outcome of a call: a value, None, or an exception
Return(v) == [kind |-> "return", type |-> "", value |-> v, message |-> <<>>]

ReturnNone == [kind |-> "none", type |-> "", value |-> <<>>, message |-> <<>>]

Raise(t, m) == [kind |-> "raise", type |-> t, value |-> <<>>, message |-> m]

NotCalled == [kind |-> "not called", type |-> "", value |-> <<>>, message |-> <<>>]

\* the number of %s conversions in fmt from index i on
RECURSIVE CountSlots(_, _)
CountSlots(fmt, i) ==
    IF i >= Len(fmt) THEN 0
    ELSE IF fmt[i] = "%" /\ fmt[i + 1] = "s" THEN 1 + CountSlots(fmt, i + 2)
         ELSE CountSlots(fmt, i + 1)

\* fmt from index i on with its k-th and later %s replaced by the k-th and
\* later arguments
RECURSIVE Substitute(_, _, _, _)
Substitute(fmt, fmtargs, i, k) ==
    IF i > Len(fmt) THEN <<>>
    ELSE IF i < Len(fmt) /\ fmt[i] = "%" /\ fmt[i + 1] = "s"
         THEN fmtargs[k] \o Substitute(fmt, fmtargs, i + 2, k + 1)
         ELSE <<fmt[i]>> \o Substitute(fmt, fmtargs, i + 1, k)

\* fmt % args: the arguments are the items of a tuple, or the one value that is
\* not a tuple; too few or too many of them is a TypeError
PyFormat(fmt, fmtargs) ==
    LET f == fmt
        a == fmtargs
        n == CountSlots(f, 1)
    IN IF n > Len(a)
       THEN Raise("TypeError", <<"n","o","t"," ","e","n","o","u","g","h"," ","a","r","g","u","m","e","n","t","s"," ","f","o","r"," ","f","o","r","m","a","t"," ","s","t","r","i","n","g">>)
       ELSE IF n < Len(a)
            THEN Raise("TypeError", <<"n","o","t"," ","a","l","l"," ","a","r","g","u","m","e","n","t","s"," ","c","o","n","v","e","r","t","e","d"," ","d","u","r","i","n","g"," ","s","t","r","i","n","g"," ","f","o","r","m","a","t","t","i","n","g">>)
            ELSE Return(Substitute(f, a, 1, 1))

\* raise Exception(fmt % args): the formatting is evaluated first
RaiseFormatted(fmt, fmtargs) ==
    LET m == PyFormat(fmt, fmtargs)
    IN IF m.kind = "raise" THEN m ELSE Raise("Exception", m.value)

-----------------------------------------------------------------------------
(* os.path: posixpath on "posix", ntpath (without drive letters) on "nt" *)

sep == IF os_name = "nt" THEN "\\" ELSE "/"

IsSep(c) == c = "/" \/ (os_name = "nt" /\ c = "\\")

\* the index of the last separator of p at or before i, 0 if there is none
RECURSIVE LastSepFrom(_, _)
LastSepFrom(p, i) ==
    IF i < 1 THEN 0 ELSE IF IsSep(p[i]) THEN i ELSE LastSepFrom(p, i - 1)

LastSep(p) == LET q == p IN LastSepFrom(q, Len(q))

\* the index of the last dot of p at or before i, 0 if there is none
RECURSIVE LastDotFrom(_, _)
LastDotFrom(p, i) ==
    IF i < 1 THEN 0 ELSE IF p[i] = "." THEN i ELSE LastDotFrom(p, i - 1)

LastDot(p) == LET q == p IN LastDotFrom(q, Len(q))

\* the index of the last character of p at or before i that is no separator
RECURSIVE LastNonSep(_, _)
LastNonSep(p, i) ==
    IF i < 1 THEN 0 ELSE IF IsSep(p[i]) THEN LastNonSep(p, i - 1) ELSE i

\* os.path.join(a, b)
path_join(a, b) ==
    LET x == a
        y == b
    IN IF y # <<>> /\ IsSep(y[1]) THEN y
       ELSE IF x = <<>> \/ IsSep(x[Len(x)]) THEN x \o y
            ELSE x \o <<sep>> \o y

\* os.path.dirname(p): the part before the last separator, without its
\* trailing separators unless it is made of separators only
dirname(p) ==
    LET q    == p
        head == Take(q, LastSep(q))
        n    == LastNonSep(head, Len(head))
    IN IF n > 0 THEN Take(head, n) ELSE head

\* os.path.basename(p)
basename(p) == LET q == p IN Drop(q, LastSep(q))

\* os.path.splitext(p): the extension starts at the last dot of the last
\* component, unless only dots precede it there
splitext(p) ==
    LET q == p
        s == LastSep(q)
        d == LastDot(q)
    IN IF d > s /\ \E i \in (s + 1)..(d - 1) : q[i] # "."
       THEN <<Take(q, d - 1), Drop(q, d - 1)>>
       ELSE <<q, <<>>>>

\* os.path.normpath(p) of a path without empty, "." or ".." components: on
\* "nt" every "/" becomes "\\", on "posix" the path is unchanged
normpath(p) == IF os_name = "nt" THEN replace(p, "/", "\\") ELSE p

isfile(p) == p \in DOMAIN fs.files

isdir(p) == p \in fs.dirs

\* os.listdir(p): the names of the files and directories directly in p
children(p) ==
    LET q == p
    IN {basename(f) : f \in {g \in DOMAIN fs.files : dirname(g) = q /\ g # q}}
       \cup {basename(d) : d \in {e \in fs.dirs : dirname(e) = q /\ e # q}}

RECURSIVE SetToSeq(_)
SetToSeq(S) == IF S = {} THEN <<>>
               ELSE LET x == CHOOSE y \in S : TRUE IN <<x>> \o SetToSeq(S \ {x})

listdir(p) == SetToSeq(children(p))

-----------------------------------------------------------------------------
(* get_sources and get_headers *)

CppExt == <<".","c","p","p">>

CExt == <<".","c">>

HExt == <<".","h">>

\* the sources that get_sources ignores, relative to the ICU root
IgnoredSources == {<<"s","o","u","r","c","e","/","t","o","o","l","s","/","t","o","o","l","u","t","i","l","/","u","d","b","g","u","t","i","l",".","c","p","p">>,
                   <<"s","o","u","r","c","e","/","t","o","o","l","s","/","t","o","o","l","u","t","i","l","/","d","b","g","u","t","i","l",".","c","p","p">>}

\* the headers that get_headers ignores, relative to the ICU root
IgnoredHeaders == {<<"s","o","u","r","c","e","/","t","o","o","l","s","/","t","o","o","l","u","t","i","l","/","u","d","b","g","u","t","i","l",".","h">>,
                   <<"s","o","u","r","c","e","/","t","o","o","l","s","/","t","o","o","l","u","t","i","l","/","d","b","g","u","t","i","l",".","h">>}

\* ignore = [os.path.join(icuroot, os.path.normpath(source)) for source in ignore]
IgnorePaths(icuroot, ignore) == {path_join(icuroot, normpath(source)) : source \in ignore}

\* get_source preferring the .c file to the .cpp file
get_source_c_first(ignore, object_path) ==
    LET obj  == object_path
        base == splitext(obj)[1]
        cpp  == base \o CppExt
        c    == base \o CExt
    IN IF cpp \in ignore \/ c \in ignore THEN ReturnNone
       ELSE IF isfile(c) THEN Return(c)
       ELSE IF isfile(cpp) THEN Return(cpp)
       ELSE RaiseFormatted(<<"%","s"," ","h","a","s"," ","n","o"," ","c","o","r","r","e","s","p","o","n","d","i","n","g"," ","s","o","u","r","c","e"," ","f","i","l","e">>, <<obj>>)

\* get_source(object_path), the function nested in get_sources; ignore is the
\* list of get_sources it closes over
get_source(ignore, object_path) ==
    LET obj  == object_path
        base == splitext(obj)[1]
        cpp  == base \o CppExt
        c    == base \o CExt
    IN IF cpp \in ignore \/ c \in ignore THEN ReturnNone
       ELSE IF isfile(cpp) THEN Return(cpp)
       ELSE IF isfile(c) THEN Return(c)
       ELSE RaiseFormatted(<<"%","s"," ","h","a","s"," ","n","o"," ","c","o","r","r","e","s","p","o","n","d","i","n","g"," ","s","o","u","r","c","e"," ","f","i","l","e">>, <<obj>>)

\* cpps = map(get_source, objects); cpps = filter(lambda cpp: cpp != None, cpps):
\* the first call that raises ends the map
RECURSIVE map_get_source(_, _, _)
map_get_source(ignore, objects, acc) ==
    IF objects = <<>> THEN Return(acc)
    ELSE LET r == get_source(ignore, Head(objects))
         IN IF r.kind = "raise" THEN r
            ELSE map_get_source(ignore, Tail(objects),
                                IF r.kind = "none" THEN acc ELSE Append(acc, r.value))

ObjectsKeyword == <<"O","B","J","E","C","T","S">>

\* line[:7] == "OBJECTS"
KeywordLen == 7

\* line = line[10:]
AssignLen == 10

\* the loop of get_sources from line i on, with in_objs and sources as they are
\* when line i is read
RECURSIVE get_sources_loop(_, _, _, _, _, _)
get_sources_loop(ignore, mkin_path, lines, i, in_objs, sources) ==
    IF i > Len(lines)
    THEN RaiseFormatted(<<"C","o","u","l","d"," ","n","o","t"," ","e","x","t","r","a","c","t"," ","s","o","u","r","c","e","s"," ","f","r","o","m"," ","%","s">>, <<mkin_path>>)
    ELSE
      LET done     == sources
          stripped == strip(lines[i])
          keyword  == Take(stripped, KeywordLen) = ObjectsKeyword
          now_in   == in_objs \/ keyword
          line     == IF keyword THEN Drop(stripped, AssignLen) ELSE stripped
      IN IF ~keyword /\ in_objs /\ Len(line) = 0 THEN Return(done)
         ELSE IF ~now_in
              THEN get_sources_loop(ignore, mkin_path, lines, i + 1, now_in, done)
         ELSE IF ~PyIndexOk(line, Len(line) - 1)
              THEN Raise("IndexError", <<"s","t","r","i","n","g"," ","i","n","d","e","x"," ","o","u","t"," ","o","f"," ","r","a","n","g","e">>)
         ELSE
           LET trimmed == IF PyIndex(line, Len(line) - 1) = "\\"
                          THEN strip(Take(line, Len(line) - 1)) ELSE line
               tokens  == split_ws(trimmed)
               dir     == dirname(mkin_path)
               objects == [k \in 1..Len(tokens) |-> path_join(dir, tokens[k])]
               cpps    == map_get_source(ignore, objects, <<>>)
           IN IF cpps.kind = "raise" THEN cpps
              ELSE get_sources_loop(ignore, mkin_path, lines, i + 1, now_in,
                                    done \o cpps.value)

get_sources(icuroot, mkin_path) ==
    IF ~isfile(mkin_path)
    THEN Raise("IOError", <<"N","o"," ","s","u","c","h"," ","f","i","l","e"," ","o","r"," ","d","i","r","e","c","t","o","r","y">>)
    ELSE LET ignore == IgnorePaths(icuroot, IgnoredSources)
             path   == mkin_path
             lines  == fs.files[path]
         IN get_sources_loop(ignore, path, lines, 1, FALSE, <<>>)

\* get_headers without the filter on the ignored headers
get_headers_unfiltered(icuroot, headers_path) ==
    IF ~isdir(headers_path)
    THEN RaiseFormatted(<<"%","s"," ","i","s"," ","n","o","t"," ","a"," ","v","a","l","i","d"," ","h","e","a","d","e","r","s"," ","p","a","t","h">>, <<headers_path>>)
    ELSE LET names   == listdir(headers_path)
             headers == [k \in 1..Len(names) |-> path_join(headers_path, names[k])]
             IsH(h)  == splitext(h)[2] = HExt
         IN Return(SelectSeq(headers, IsH))

get_headers(icuroot, headers_path) ==
    LET ignore == IgnorePaths(icuroot, IgnoredHeaders)
    IN IF ~isdir(headers_path)
       THEN RaiseFormatted(<<"%","s"," ","i","s"," ","n","o","t"," ","a"," ","v","a","l","i","d"," ","h","e","a","d","e","r","s"," ","p","a","t","h">>, <<headers_path>>)
       ELSE LET names   == listdir(headers_path)
                headers == [k \in 1..Len(names) |-> path_join(headers_path, names[k])]
                IsH(h)  == splitext(h)[2] = HExt
                NotIgnored(h) == h \notin ignore
            IN Return(SelectSeq(SelectSeq(headers, IsH), NotIgnored))

\* no path given (None), and a path given
NoPath == [given |-> FALSE, path |-> <<>>]

Path(p) == [given |-> TRUE, path |-> p]

NoResponse == <<"not asked">>

\* the process variables when a function is applied on its own
NoProcess ==
    /\ args = [yes |-> FALSE, version |-> <<>>, icu_root |-> <<>>, archive |-> NoPath]
    /\ pc = "none"
    /\ fs0 = fs
    /\ prompts = 0
    /\ response = NoResponse
    /\ requests = <<>>
    /\ download = <<>>
    /\ checksum = <<>>
    /\ md5s = <<>>
    /\ archive_path = NoPath
    /\ calls = <<>>
    /\ dep_i = 0
    /\ exit = NotCalled

-----------------------------------------------------------------------------
(* The directory layout create_msvc_props walks *)

OsNames == {"nt", "posix"}

\* the value of -i/--icu-root in the runs modelled
IcuRootArg == <<"r">>

\* os.path.join(args.icu_root, "icu"), the icu_sources_root of create_msvc_props
IcuSourcesRoot == path_join(IcuRootArg, <<"i","c","u">>)

\* sourceroot = os.path.join(icu_sources_root, "source")
SourceRoot == path_join(IcuSourcesRoot, <<"s","o","u","r","c","e">>)

\* toolsroot = os.path.join(sourceroot, "tools")
ToolsRoot == path_join(SourceRoot, <<"t","o","o","l","s">>)

\* os.path.join(deproot, dep, "Makefile.in")
MakefileIn(deproot, dep) == path_join(path_join(deproot, dep), <<"M","a","k","e","f","i","l","e",".","i","n">>)

ToolutilDir == path_join(ToolsRoot, <<"t","o","o","l","u","t","i","l">>)

CommonDir == path_join(SourceRoot, <<"c","o","m","m","o","n">>)

\* the directories from the ICU root down to directory d
RECURSIVE Ancestors(_)
Ancestors(d) ==
    LET q  == d
        up == dirname(q)
    IN IF q = <<>> \/ up = q THEN {q} \ {<<>>} ELSE {q} \cup Ancestors(up)

\* a file system holding the given files (path -> content) and their directories
FsOf(files) == [files |-> files,
                dirs  |-> UNION {Ancestors(d) : d \in {dirname(f) : f \in DOMAIN files}}]

\* the sequences over S of length at most n
SeqsUpTo(S, n) == UNION {[1..k -> S] : k \in 0..n}

-----------------------------------------------------------------------------
(* get_sources applied to Makefile.in fragments *)

MaxLines == 3

\* the lines the fragments are made of, as read from the file
FragmentLines == {
    <<"O","B","J","E","C","T","S"," ","="," ","a",".","o"," ","b",".","o"," ","\\","\n">>,
    <<"O","B","J","E","C","T","S"," ","="," ","c",".","o","\n">>,
    <<"O","B","J","E","C","T","S"," ","="," ","\n">>,
    <<"O","B","J","E","C","T","S"," ","="," ","\\","\n">>,
    <<" "," ","b",".","o"," ","u","d","b","g","u","t","i","l",".","o"," ","\\","\n">>,
    <<"c",".","o","\n">>,
    <<"\n">>,
    <<" ","\t","\n">>,
    <<"S","O","U","R","C","E","S"," ","="," ","z",".","o","\n">>,
    <<"m",".","o","\n">> }

\* the sources present beside the toolutil Makefile.in: a.cpp, b.c, both c.cpp
\* and c.c, and the ignored udbgutil.cpp; m.o and z.o have no source
ToolutilSources == {<<"a",".","c","p","p">>, <<"b",".","c">>, <<"c",".","c","p","p">>, <<"c",".","c">>, <<"u","d","b","g","u","t","i","l",".","c","p","p">>}

\* the file system with the given fragment as the toolutil Makefile.in
FragmentFs(fragment, sources) ==
    FsOf((MakefileIn(ToolsRoot, <<"t","o","o","l","u","t","i","l">>) :> fragment)
         @@ [f \in {path_join(ToolutilDir, n) : n \in sources} |-> <<>>])

InitSources ==
    /\ os_name \in OsNames
    /\ \E fragment \in SeqsUpTo(FragmentLines, MaxLines) :
          fs = FragmentFs(fragment, ToolutilSources)
    /\ call = [fn |-> "get_sources", icuroot |-> IcuSourcesRoot,
               path |-> MakefileIn(ToolsRoot, <<"t","o","o","l","u","t","i","l">>), tokens |-> <<>>]
    /\ ret = NotCalled
    /\ NoProcess

\* sources = get_sources(icu_sources_root, os.path.join(deproot, dep, "Makefile.in"))
CallGetSources ==
    /\ call.fn = "get_sources"
    /\ ret = NotCalled
    /\ ret' = get_sources(call.icuroot, call.path)
    /\ UNCHANGED <<os_name, fs, call>>
    /\ UNCHANGED mainVars

SpecSources == InitSources /\ [][CallGetSources]_vars

(* What the specification says get_sources returns for a fragment *)

TheLines == fs.files[call.path]

IsObjectsLine(i) == Take(strip(TheLines[i]), KeywordLen) = ObjectsKeyword

IsBlankLine(i) == strip(TheLines[i]) = <<>>

\* the first line starting with OBJECTS, 0 if there is none
FirstObjects ==
    LET I == {i \in 1..Len(TheLines) : IsObjectsLine(i)}
    IN IF I = {} THEN 0 ELSE CHOOSE i \in I : \A j \in I : i <= j

\* the first blank line after the first OBJECTS line, 0 if there is none
Terminator ==
    LET I == {i \in 1..Len(TheLines) : FirstObjects > 0 /\ i > FirstObjects /\ IsBlankLine(i)}
    IN IF I = {} THEN 0 ELSE CHOOSE i \in I : \A j \in I : i <= j

\* the object tokens of line i: the line without the leading "OBJECTS = " and
\* without a trailing continuation backslash, split on whitespace
ListedTokens(i) ==
    LET l0 == strip(TheLines[i])
        l1 == IF IsObjectsLine(i) THEN Drop(l0, AssignLen) ELSE l0
        l2 == IF l1 # <<>> /\ l1[Len(l1)] = "\\" THEN Take(l1, Len(l1) - 1) ELSE l1
    IN split_ws(l2)

ObjectPath(token) == path_join(dirname(call.path), token)

CppOf(object) == splitext(object)[1] \o CppExt

COf(object) == splitext(object)[1] \o CExt

IsIgnored(object) ==
    LET ignore == IgnorePaths(call.icuroot, IgnoredSources)
    IN CppOf(object) \in ignore \/ COf(object) \in ignore

HasSource(object) == isfile(CppOf(object)) \/ isfile(COf(object))

\* the .cpp file if it exists, else the .c file
SourceOf(object) == IF isfile(CppOf(object)) THEN CppOf(object) ELSE COf(object)

\* the lines of the list: from the first OBJECTS line to the line before the
\* terminator, or to the last line when there is no terminator
ListLines == IF FirstObjects = 0 THEN {}
             ELSE FirstObjects..(IF Terminator > 0 THEN Terminator - 1 ELSE Len(TheLines))

AllResolve ==
    \A i \in ListLines : \A k \in 1..Len(ListedTokens(i)) :
        LET object == ObjectPath(ListedTokens(i)[k])
        IN IsIgnored(object) \/ HasSource(object)

\* the sources of the tokens that are not ignored, in the order of the tokens
RECURSIVE SourcesOfTokens(_)
SourcesOfTokens(tokens) ==
    IF tokens = <<>> THEN <<>>
    ELSE LET object == ObjectPath(Head(tokens))
         IN (IF IsIgnored(object) THEN <<>> ELSE <<SourceOf(object)>>)
            \o SourcesOfTokens(Tail(tokens))

RECURSIVE SourcesOfLines(_, _)
SourcesOfLines(i, last) ==
    IF i > last THEN <<>>
    ELSE SourcesOfTokens(ListedTokens(i)) \o SourcesOfLines(i + 1, last)

Called(fn) == call.fn = fn /\ ret # NotCalled

\* C5: for a fragment with an OBJECTS line followed later by a blank line, whose
\* tokens all resolve, get_sources returns the sources of the tokens listed from
\* the first OBJECTS line up to the first blank line after it, in document order
\* with duplicates retained, and nothing else.
C5_SourcesInDocumentOrder ==
    (Called("get_sources") /\ Terminator > 0 /\ AllResolve)
        => ret = Return(SourcesOfLines(FirstObjects, Terminator - 1))

\* C7: for a fragment in which no blank line follows an OBJECTS line before the
\* end of the file (no OBJECTS line at all, or a list that runs to the last
\* line, even one without tokens), whose tokens all resolve, get_sources fails
\* with "Could not extract sources from <path>" and returns no list.
C7_MalformedFragmentError ==
    (Called("get_sources") /\ Terminator = 0 /\ AllResolve)
        => ret = Raise("Exception", <<"C","o","u","l","d"," ","n","o","t"," ","e","x","t","r","a","c","t"," ","s","o","u","r","c","e","s"," ","f","r","o","m"," ">> \o call.path)

-----------------------------------------------------------------------------
(* get_sources applied to one list of object tokens, over the sources present *)

MaxTokens == 2

\* a.o may have a.cpp and a.c, c.o only c.c, m.o has no source, and udbgutil.o
\* is on the ignore list
TokenSamples == {<<"a",".","o">>, <<"c",".","o">>, <<"m",".","o">>, <<"u","d","b","g","u","t","i","l",".","o">>}

CandidateSources == {<<"a",".","c","p","p">>, <<"a",".","c">>, <<"c",".","c">>, <<"u","d","b","g","u","t","i","l",".","c","p","p">>}

\* "OBJECTS = <tokens>" and the blank line that ends the list
TokenFragment(tokens) == <<<<"O","B","J","E","C","T","S"," ","="," ">> \o join(<<" ">>, tokens) \o <<"\n">>, <<"\n">>>>

InitResolve ==
    /\ os_name \in OsNames
    /\ \E tokens \in SeqsUpTo(TokenSamples, MaxTokens) \ {<<>>} :
       \E present \in SUBSET CandidateSources :
          /\ fs = FragmentFs(TokenFragment(tokens), present)
          /\ call = [fn |-> "get_sources", icuroot |-> IcuSourcesRoot,
                     path |-> MakefileIn(ToolsRoot, <<"t","o","o","l","u","t","i","l">>), tokens |-> tokens]
    /\ ret = NotCalled
    /\ NoProcess

SpecResolve == InitResolve /\ [][CallGetSources]_vars

TokenObjects == [k \in 1..Len(call.tokens) |-> ObjectPath(call.tokens[k])]

\* the tokens that are not ignored and have neither a .cpp nor a .c file
MissingTokens == {k \in 1..Len(call.tokens) :
                     ~IsIgnored(TokenObjects[k]) /\ ~HasSource(TokenObjects[k])}

\* C6: a token whose .cpp or .c path is on the ignore list is left out of the
\* result without an error; any other token resolves to its .cpp file if that
\* exists, else to its .c file; and if a token that is not ignored has neither,
\* get_sources fails with "<object path> has no corresponding source file" and
\* returns no list.
C6_TokenResolution ==
    (Called("get_sources") /\ call.tokens # <<>>) =>
        IF MissingTokens = {}
        THEN ret = Return(SourcesOfTokens(call.tokens))
        ELSE LET first == CHOOSE k \in MissingTokens : \A j \in MissingTokens : k <= j
             IN ret = Raise("Exception",
                            TokenObjects[first] \o <<" ","h","a","s"," ","n","o"," ","c","o","r","r","e","s","p","o","n","d","i","n","g"," ","s","o","u","r","c","e"," ","f","i","l","e">>)

\* the list "udbgutil.o a.o" with a.cpp and a.c both present yields a.cpp alone
C6_Witness ==
    /\ Called("get_sources")
    /\ call.tokens = <<<<"u","d","b","g","u","t","i","l",".","o">>, <<"a",".","o">>>>
    /\ isfile(path_join(ToolutilDir, <<"a",".","c","p","p">>))
    /\ isfile(path_join(ToolutilDir, <<"a",".","c">>))
    /\ ret = Return(<<path_join(ToolutilDir, <<"a",".","c","p","p">>)>>)

-----------------------------------------------------------------------------
(* get_headers applied to a directory *)

\* a.h is a header, b.c and a.hpp are not, ".h" and "h" have no extension, and
\* udbgutil.h and dbgutil.h are the ignored headers when in tools/toolutil
EntrySamples == {<<"a",".","h">>, <<"b",".","c">>, <<"u","d","b","g","u","t","i","l",".","h">>, <<"d","b","g","u","t","i","l",".","h">>, <<"a",".","h","p","p">>, <<".","h">>, <<"h">>}

\* a subdirectory that may be present in the directory listed
SubdirSample == <<"u","n","i","c","o","d","e">>

InitHeaders ==
    /\ os_name \in OsNames
    /\ \E hp \in {ToolutilDir, CommonDir} :
          /\ call = [fn |-> "get_headers", icuroot |-> IcuSourcesRoot,
                     path |-> hp, tokens |-> <<>>]
          /\ \/ \E names \in SUBSET EntrySamples : \E subdir \in BOOLEAN :
                   fs = [files |-> [f \in {path_join(hp, n) : n \in names} |-> <<>>],
                         dirs  |-> Ancestors(hp) \cup
                                   (IF subdir THEN {path_join(hp, SubdirSample)} ELSE {})]
             \/ fs = [files |-> (hp :> <<>>), dirs |-> Ancestors(dirname(hp))]
             \/ fs = [files |-> <<>>, dirs |-> Ancestors(dirname(hp))]
    /\ ret = NotCalled
    /\ NoProcess

\* headers = get_headers(icu_sources_root, os.path.join(deproot, dep))
CallGetHeaders ==
    /\ call.fn = "get_headers"
    /\ ret = NotCalled
    /\ ret' = get_headers(call.icuroot, call.path)
    /\ UNCHANGED <<os_name, fs, call>>
    /\ UNCHANGED mainVars

SpecHeaders == InitHeaders /\ [][CallGetHeaders]_vars

\* the name ends in ".h" and something other than dots precedes that
HasHeaderExtension(name) ==
    /\ Len(name) > 2
    /\ name[Len(name) - 1] = "." /\ name[Len(name)] = "h"
    /\ \E i \in 1..(Len(name) - 2) : name[i] # "."

-----------------------------------------------------------------------------
(* create_msvc_props *)

LowerCase == <<"a","b","c","d","e","f","g","h","i","j","k","l","m","n","o","p","q","r","s","t","u","v","w","x","y","z">>

UpperCase == <<"A","B","C","D","E","F","G","H","I","J","K","L","M","N","O","P","Q","R","S","T","U","V","W","X","Y","Z">>

Upper(c) == IF \E i \in 1..Len(LowerCase) : LowerCase[i] = c
            THEN UpperCase[CHOOSE i \in 1..Len(LowerCase) : LowerCase[i] = c] ELSE c

Lower(c) == IF \E i \in 1..Len(UpperCase) : UpperCase[i] = c
            THEN LowerCase[CHOOSE i \in 1..Len(UpperCase) : UpperCase[i] = c] ELSE c

\* str.capitalize()
capitalize(w) == LET q == w IN [i \in 1..Len(q) |-> IF i = 1 THEN Upper(q[i]) ELSE Lower(q[i])]

\* joiner = ";\n      "
Joiner == <<";","\n"," "," "," "," "," "," ">>

\* prop_template.format(name0, name1, body) and
\* no_newline_prop_template.format(name0 + name1, body): an element
\* Icu<name0><name1> holding body
PropElement(name0, name1, body) == [tag |-> <<"I","c","u">> \o name0 \o name1, body |-> body]

Prelude == [tag |-> <<"<","P","r","o","j","e","c","t",">">>, body |-> <<>>]

Conclusion == [tag |-> <<"<","/","P","r","o","j","e","c","t",">">>, body |-> <<>>]

\* for dep in ["common", "i18n", "stubdata"], then for dep in ["toolutil", "genccode"]
LibraryDeps == <<<<"c","o","m","m","o","n">>, <<"i","1","8","n">>, <<"s","t","u","b","d","a","t","a">>>>

ToolDeps == <<<<"t","o","o","l","u","t","i","l">>, <<"g","e","n","c","c","o","d","e">>>>

AllDeps == LibraryDeps \o ToolDeps

\* the deproot the k-th component is processed with
DepRoot(icu_sources_root, k) ==
    LET sourceroot == path_join(icu_sources_root, <<"s","o","u","r","c","e">>)
    IN IF k <= Len(LibraryDeps) THEN sourceroot ELSE path_join(sourceroot, <<"t","o","o","l","s">>)

\* add_props catching the exception of get_sources or get_headers and going on
add_props_catching(icu_sources_root, deproot, dep) ==
    LET sources == get_sources(icu_sources_root, MakefileIn(deproot, dep))
        headers == get_headers(icu_sources_root, path_join(deproot, dep))
        sources_prop == PropElement(capitalize(dep), <<"S","o","u","r","c","e","s">>, join(Joiner, sources.value))
        headers_prop == PropElement(capitalize(dep), <<"H","e","a","d","e","r","s">>, join(Joiner, headers.value))
    IN IF sources.kind = "raise" THEN [written |-> <<>>, outcome |-> ReturnNone]
       ELSE IF headers.kind = "raise" THEN [written |-> <<sources_prop>>, outcome |-> ReturnNone]
       ELSE [written |-> <<sources_prop, headers_prop>>, outcome |-> ReturnNone]

\* add_props(propfile, deproot, dep): what it writes, and the exception that
\* ended it if one did
add_props(icu_sources_root, deproot, dep) ==
    LET sources == get_sources(icu_sources_root, MakefileIn(deproot, dep))
        headers == get_headers(icu_sources_root, path_join(deproot, dep))
        sources_prop == PropElement(capitalize(dep), <<"S","o","u","r","c","e","s">>, join(Joiner, sources.value))
        headers_prop == PropElement(capitalize(dep), <<"H","e","a","d","e","r","s">>, join(Joiner, headers.value))
    IN IF sources.kind = "raise" THEN [written |-> <<>>, outcome |-> sources]
       ELSE IF headers.kind = "raise" THEN [written |-> <<sources_prop>>, outcome |-> headers]
       ELSE [written |-> <<sources_prop, headers_prop>>, outcome |-> ReturnNone]

\* what create_msvc_props writes after the last component
props_metadata(icu_sources_root, version) ==
    LET sourceroot    == path_join(icu_sources_root, <<"s","o","u","r","c","e">>)
        version_parts == split_on(version, ".")
        include_dirs  == <<path_join(sourceroot, <<"c","o","m","m","o","n">>), path_join(sourceroot, <<"i","1","8","n">>)>>
    IN << PropElement(<<"V","e","r","s","i","o","n","M","a","j","o","r">>, <<>>, version_parts[1]),
          PropElement(<<"V","e","r","s","i","o","n","M","i","n","o","r">>, <<>>,
                      IF Len(version_parts) > 1 THEN version_parts[2] ELSE <<"0">>),
          PropElement(<<"S","o","u","r","c","e","D","i","r","e","c","t","o","r","y">>, <<>>, sourceroot),
          PropElement(<<"I","n","c","l","u","d","e">>, <<"D","i","r","e","c","t","o","r","i","e","s">>, join(Joiner, include_dirs)),
          Conclusion >>

\* chakra_icu_root: <repository>/deps/Chakra.ICU
ChakraIcuRoot == path_join(path_join(<<"c">>, <<"d","e","p","s">>), <<"C","h","a","k","r","a",".","I","C","U">>)

PropsPath(chakra_icu_root) == path_join(chakra_icu_root, <<"C","h","a","k","r","a",".","I","C","U",".","p","r","o","p","s">>)

\* the file system with content written as file p
WriteFile(f, p, content) ==
    [f EXCEPT !.files = (p :> content) @@ f.files]

\* the arguments main passes to create_msvc_props
PropsSourcesRoot == path_join(args.icu_root, <<"i","c","u">>)

\* with open(os.path.join(chakra_icu_root, "Chakra.ICU.props"), "w") as propfile:
\*     propfile.write(prelude)
PropsOpen ==
    /\ pc = "PropsOpen"
    /\ IF isdir(ChakraIcuRoot)
       THEN /\ fs' = WriteFile(fs, PropsPath(ChakraIcuRoot), <<Prelude>>)
            /\ pc' = "PropsAdd"
            /\ exit' = exit
       ELSE /\ fs' = fs
            /\ pc' = "done"
            /\ exit' = Raise("IOError", <<"N","o"," ","s","u","c","h"," ","f","i","l","e"," ","o","r"," ","d","i","r","e","c","t","o","r","y">>)
    /\ dep_i' = 0
    /\ UNCHANGED <<os_name, call, ret, args, fs0, prompts, response, requests,
                   download, checksum, md5s, archive_path, calls>>

\* add_props(propfile, sourceroot, dep) or add_props(propfile, toolsroot, dep)
\* for the next component; an exception leaves the with block, which closes
\* the file with what was written, and ends the process
PropsAdd ==
    /\ pc = "PropsAdd"
    /\ dep_i < Len(AllDeps)
    /\ LET r == add_props(PropsSourcesRoot, DepRoot(PropsSourcesRoot, dep_i + 1),
                          AllDeps[dep_i + 1])
           p == PropsPath(ChakraIcuRoot)
       IN /\ fs' = WriteFile(fs, p, fs.files[p] \o r.written)
          /\ IF r.outcome.kind = "raise"
             THEN /\ exit' = r.outcome
                  /\ pc' = "done"
                  /\ dep_i' = dep_i
             ELSE /\ exit' = exit
                  /\ dep_i' = dep_i + 1
                  /\ pc' = IF dep_i + 1 = Len(AllDeps) THEN "PropsMeta" ELSE "PropsAdd"
    /\ UNCHANGED <<os_name, call, ret, args, fs0, prompts, response, requests,
                   download, checksum, md5s, archive_path, calls>>

\* the version, source directory and include directories, then the conclusion;
\* main returns
PropsMeta ==
    /\ pc = "PropsMeta"
    /\ LET p == PropsPath(ChakraIcuRoot)
       IN fs' = WriteFile(fs, p, fs.files[p] \o props_metadata(PropsSourcesRoot, args.version))
    /\ pc' = "done"
    /\ exit' = ReturnNone
    /\ UNCHANGED <<os_name, call, ret, args, fs0, prompts, response, requests,
                   download, checksum, md5s, archive_path, calls, dep_i>>

\* the versions given on the command line; "60.2" is the default
VersionSamples == {<<"6","1",".","1">>, <<"6","0">>}

\* a component's directory as extracted: complete, with a Makefile.in that has
\* no blank line after its list, or missing
DepStates == {"good", "malformed", "missing"}

GoodMakefile == <<<<"O","B","J","E","C","T","S"," ","="," ","a",".","o"," ","\\","\n">>, <<"b",".","o","\n">>, <<"\n">>>>

MalformedMakefile == <<<<"O","B","J","E","C","T","S"," ","="," ","a",".","o","\n">>>>

DepFiles(k, state) ==
    LET dir == path_join(DepRoot(IcuSourcesRoot, k), AllDeps[k])
    IN IF state = "missing" THEN <<>>
       ELSE (path_join(dir, <<"M","a","k","e","f","i","l","e",".","i","n">>) :>
                (IF state = "good" THEN GoodMakefile ELSE MalformedMakefile))
            @@ (path_join(dir, <<"a",".","c","p","p">>) :> <<>>)
            @@ (path_join(dir, <<"b",".","c">>) :> <<>>)
            @@ (path_join(dir, <<"a",".","h">>) :> <<>>)

RECURSIVE TreeFiles(_, _)
TreeFiles(states, k) ==
    IF k > Len(AllDeps) THEN <<>> ELSE DepFiles(k, states[k]) @@ TreeFiles(states, k + 1)

InitProps ==
    /\ os_name \in OsNames
    /\ \E states \in [1..Len(AllDeps) -> DepStates] :
          LET tree == FsOf(TreeFiles(states, 1))
          IN fs = [tree EXCEPT !.dirs = @ \cup Ancestors(ChakraIcuRoot) \cup Ancestors(IcuRootArg)]
    /\ \E v \in VersionSamples :
          args = [yes |-> TRUE, version |-> v, icu_root |-> IcuRootArg, archive |-> NoPath]
    /\ pc = "PropsOpen"
    /\ fs0 = fs
    /\ call = [fn |-> "create_msvc_props", icuroot |-> IcuSourcesRoot,
               path |-> ChakraIcuRoot, tokens |-> <<>>]
    /\ ret = NotCalled
    /\ prompts = 0 /\ response = NoResponse /\ requests = <<>> /\ download = <<>>
    /\ checksum = <<>> /\ md5s = <<>> /\ archive_path = NoPath /\ calls = <<>>
    /\ dep_i = 0
    /\ exit = NotCalled

NextProps == PropsOpen \/ PropsAdd \/ PropsMeta

SpecProps == InitProps /\ [][NextProps]_vars

\* what Chakra.ICU.props holds
Written == IF isfile(PropsPath(ChakraIcuRoot)) THEN fs.files[PropsPath(ChakraIcuRoot)] ELSE <<>>

WrittenTags == [k \in 1..Len(Written) |-> Written[k].tag]

\* the elements of a complete Chakra.ICU.props, in order
ExpectedTags == <<
    <<"<","P","r","o","j","e","c","t",">">>,
    <<"I","c","u","C","o","m","m","o","n","S","o","u","r","c","e","s">>, <<"I","c","u","C","o","m","m","o","n","H","e","a","d","e","r","s">>,
    <<"I","c","u","I","1","8","n","S","o","u","r","c","e","s">>, <<"I","c","u","I","1","8","n","H","e","a","d","e","r","s">>,
    <<"I","c","u","S","t","u","b","d","a","t","a","S","o","u","r","c","e","s">>, <<"I","c","u","S","t","u","b","d","a","t","a","H","e","a","d","e","r","s">>,
    <<"I","c","u","T","o","o","l","u","t","i","l","S","o","u","r","c","e","s">>, <<"I","c","u","T","o","o","l","u","t","i","l","H","e","a","d","e","r","s">>,
    <<"I","c","u","G","e","n","c","c","o","d","e","S","o","u","r","c","e","s">>, <<"I","c","u","G","e","n","c","c","o","d","e","H","e","a","d","e","r","s">>,
    <<"I","c","u","V","e","r","s","i","o","n","M","a","j","o","r">>, <<"I","c","u","V","e","r","s","i","o","n","M","i","n","o","r">>, <<"I","c","u","S","o","u","r","c","e","D","i","r","e","c","t","o","r","y">>,
    <<"I","c","u","I","n","c","l","u","d","e","D","i","r","e","c","t","o","r","i","e","s">>, <<"<","/","P","r","o","j","e","c","t",">">> >>

SourcesOfDep(k) ==
    get_sources(PropsSourcesRoot, MakefileIn(DepRoot(PropsSourcesRoot, k), AllDeps[k]))

HeadersOfDep(k) ==
    get_headers(PropsSourcesRoot, path_join(DepRoot(PropsSourcesRoot, k), AllDeps[k]))

DepFails(k) == SourcesOfDep(k).kind = "raise" \/ HeadersOfDep(k).kind = "raise"

\* C9: the components are written in the order common, i18n, stubdata,
\* toolutil, genccode, each as its sources element then its headers element,
\* followed by the version, source directory and include directories and the
\* closing markup; when get_sources or get_headers fails for a component, that
\* exception ends the process as it is, and the file holds nothing of that
\* component's failed element, of any later component, of the metadata or of
\* the closing markup.
C9_PropsOrderAndAbort ==
    pc \in {"PropsOpen", "PropsAdd", "PropsMeta", "done"} =>
      /\ Len(WrittenTags) <= Len(ExpectedTags)
      /\ WrittenTags = SubSeq(ExpectedTags, 1, Len(WrittenTags))
      /\ exit.kind = "raise" =>
            \E k \in 1..Len(AllDeps) :
               /\ \A j \in 1..(k - 1) : ~DepFails(j)
               /\ DepFails(k)
               /\ IF SourcesOfDep(k).kind = "raise"
                  THEN exit = SourcesOfDep(k) /\ Len(Written) = 1 + 2 * (k - 1)
                  ELSE exit = HeadersOfDep(k) /\ Len(Written) = 2 + 2 * (k - 1)
      /\ (pc = "done" /\ exit.kind # "raise") =>
            /\ WrittenTags = ExpectedTags
            /\ \A k \in 1..Len(AllDeps) : ~DepFails(k)

\* get_sources failed for i18n, the second component: the file holds the
\* prelude and the two elements of common
C9_Witness ==
    /\ pc = "done"
    /\ exit.kind = "raise"
    /\ ~DepFails(1) /\ DepFails(2)
    /\ WrittenTags = <<<<"<","P","r","o","j","e","c","t",">">>, <<"I","c","u","C","o","m","m","o","n","S","o","u","r","c","e","s">>, <<"I","c","u","C","o","m","m","o","n","H","e","a","d","e","r","s">>>>

-----------------------------------------------------------------------------
(* The file system operations of extract_icu *)

\* p is d or lies below d
IsUnder(p, d) ==
    LET x == p
        y == d
    IN x = y \/ (Len(x) > Len(y) /\ SubSeq(x, 1, Len(y)) = y /\ IsSep(x[Len(y) + 1]))

\* shutil.rmtree(d)
rmtree(f, d) ==
    [files |-> [p \in {q \in DOMAIN f.files : ~IsUnder(q, d)} |-> f.files[p]],
     dirs  |-> {x \in f.dirs : ~IsUnder(x, d)}]

\* shutil.move(src, dst) of a directory src to a path dst that does not exist
move(f, src, dst) ==
    LET Moved(p) == dst \o Drop(p, Len(src))
        Back(p)  == src \o Drop(p, Len(dst))
        stay     == {q \in DOMAIN f.files : ~IsUnder(q, src)}
        go       == {Moved(q) : q \in {r \in DOMAIN f.files : IsUnder(r, src)}}
    IN [files |-> [p \in stay \cup go |->
                      IF p \in stay THEN f.files[p] ELSE f.files[Back(p)]],
        dirs  |-> {x \in f.dirs : ~IsUnder(x, src)}
                  \cup {Moved(x) : x \in {y \in f.dirs : IsUnder(y, src)}}]

\* an archive: its members (name with "/", content) in archive order, and how
\* many of them can be read before the archive turns out to be damaged
\* (all of them when it is intact)
Member(name, content) == [name |-> name, content |-> content]

ComponentMembers(dir) ==
    << Member(dir \o <<"/","M","a","k","e","f","i","l","e",".","i","n">>, GoodMakefile),
       Member(dir \o <<"/","a",".","c","p","p">>, <<>>),
       Member(dir \o <<"/","b",".","c">>, <<>>) >>

IcuMembers ==
    ComponentMembers(<<"i","c","u","/","s","o","u","r","c","e","/","c","o","m","m","o","n">>) \o
    << Member(<<"i","c","u","/","s","o","u","r","c","e","/","c","o","m","m","o","n","/","a",".","h">>, <<>>) >> \o
    ComponentMembers(<<"i","c","u","/","s","o","u","r","c","e","/","i","1","8","n">>) \o
    ComponentMembers(<<"i","c","u","/","s","o","u","r","c","e","/","s","t","u","b","d","a","t","a">>) \o
    ComponentMembers(<<"i","c","u","/","s","o","u","r","c","e","/","t","o","o","l","s","/","t","o","o","l","u","t","i","l">>) \o
    ComponentMembers(<<"i","c","u","/","s","o","u","r","c","e","/","t","o","o","l","s","/","g","e","n","c","c","o","d","e">>)

\* the release asked for
ArchiveNew == [id |-> "new", members |-> IcuMembers, readable |-> Len(IcuMembers)]

\* another release, with one file the first does not have
ArchiveOld == [id |-> "old",
               members |-> << Member(<<"i","c","u","/","s","o","u","r","c","e","/","c","o","m","m","o","n","/","o","l","d",".","c">>, <<>>) >> \o IcuMembers,
               readable |-> Len(IcuMembers) + 1]

\* the other release damaged: only its first member can be read
ArchiveCut == [id |-> "cut", members |-> ArchiveOld.members, readable |-> 1]

\* an archive that cannot be opened (not an archive, or a zip given to tarfile)
ArchiveBad == [id |-> "bad", members |-> <<>>, readable |-> -1]

\* an archive without a top-level icu folder
ArchiveFlat == [id |-> "flat", members |-> << Member(<<"r","e","a","d","m","e",".","t","x","t">>, <<>>) >>, readable |-> 1]


\* hashlib.md5(content).hexdigest(), as a table over the archives of the model
\* (digests shortened to four hexadecimal digits)
md5_hexdigest(content) ==
    CASE content.id = "new"  -> <<"0","a","1","b">>
      [] content.id = "old"  -> <<"2","c","3","d">>
      [] content.id = "cut"  -> <<"4","e","5","f">>
      [] content.id = "bad"  -> <<"6","a","7","b">>
      [] content.id = "flat" -> <<"8","c","9","d">>

\* archive.extractall(tempdir): the readable members are written below
\* tempdir, over what is there
extractall(f, archive, tempdir) ==
    LET n     == IF archive.readable < 0 THEN 0 ELSE archive.readable
        Dest(k) == path_join(tempdir, normpath(archive.members[k].name))
        new   == {Dest(k) : k \in 1..n}
        Content(p) == archive.members[CHOOSE k \in 1..n : Dest(k) = p].content
    IN [files |-> [p \in new \cup DOMAIN f.files |->
                      IF p \in new THEN Content(p) ELSE f.files[p]],
        dirs  |-> f.dirs \cup
                  UNION {{a \in Ancestors(d) : IsUnder(a, tempdir)} : d \in {dirname(p) : p \in new}}]

-----------------------------------------------------------------------------
(* download_icu *)

DigitValue(c) == CASE c = "0" -> 0 [] c = "1" -> 1 [] c = "2" -> 2

\* fmt.format(*fmtargs) from index i on, for the fields {0}, {1} and {2}
RECURSIVE StrFormatFrom(_, _, _)
StrFormatFrom(fmt, fmtargs, i) ==
    IF i > Len(fmt) THEN <<>>
    ELSE IF fmt[i] = "{" /\ i + 2 <= Len(fmt) /\ fmt[i + 2] = "}"
         THEN fmtargs[DigitValue(fmt[i + 1]) + 1] \o StrFormatFrom(fmt, fmtargs, i + 3)
         ELSE <<fmt[i]>> \o StrFormatFrom(fmt, fmtargs, i + 1)

\* fmt.format(*fmtargs)
StrFormat(fmt, fmtargs) == LET f == fmt  a == fmtargs IN StrFormatFrom(f, a, 1)

\* extension = "zip" if os.name == "nt" else "tgz"
extension == IF os_name = "nt" THEN <<"z","i","p">> ELSE <<"t","g","z">>

archive_file(version) ==
    StrFormat(<<"i","c","u","4","c","-","{","0","}","-","s","r","c",".","{","1","}">>, <<replace(version, ".", "_"), extension>>)

md5_file(version) == StrFormat(<<"i","c","u","4","c","-","s","r","c","-","{","0","}",".","m","d","5">>, <<replace(version, ".", "_")>>)

archive_url(version) ==
    StrFormat(<<"h","t","t","p",":","/","/","d","o","w","n","l","o","a","d",".","i","c","u","-","p","r","o","j","e","c","t",".","o","r","g","/","f","i","l","e","s","/","i","c","u","4","c","/","{","0","}","/","{","1","}">>,
              <<version, archive_file(version)>>)

md5_url(version) ==
    StrFormat(<<"h","t","t","p","s",":","/","/","s","s","l",".","i","c","u","-","p","r","o","j","e","c","t",".","o","r","g","/","f","i","l","e","s","/","i","c","u","4","c","/","{","0","}","/","{","1","}">>,
              <<version, md5_file(version)>>)

\* a variant that takes only the empty answer and "y" for consent
IsDeclined_lower_only(r) == r # <<>> /\ r # <<"y">>

\* if response != "" and response != "y" and response != "Y": sys.exit(0)
IsDeclined(r) == r # <<>> /\ r # <<"y">> /\ r # <<"Y">>

\* sys.exit(0)
SystemExit0 == [kind |-> "exit", type |-> "SystemExit", value |-> <<>>, message |-> <<"0">>]

\* relevant_md5 = filter(lambda line: line[len(line) - len(archive_file):] == archive_file, md5s)
relevant_md5(lines, file) ==
    LET Ends(line) == PySliceFrom(line, Len(line) - Len(file)) = file
    IN SelectSeq(lines, Ends)

\* raise Exception(fmt % arg, extra): the formatting is evaluated first, with
\* arg as its only argument
RaiseFormattedWith(fmt, arg, extra) ==
    LET m == PyFormat(fmt, <<arg>>)
    IN IF m.kind = "raise" THEN m ELSE Raise("Exception", m.value \o <<","," ">> \o extra)

\* a variant that does not compare the digests
verify_md5_uncompared(lines, file, url, digest, path) ==
    LET relevant == relevant_md5(lines, file)
    IN IF Len(relevant) # 1
       THEN RaiseFormattedWith(<<"C","o","u","l","d"," ","n","o","t"," ","f","i","n","d"," ","m","d","5"," ","h","a","s","h"," ","f","o","r"," ","%","s"," ","i","n"," ","%","s">>, file, url)
       ELSE Return(path)

\* the end of download_icu, from relevant_md5 on: the archive path, or the
\* exception raised
verify_md5(lines, file, url, digest, path) ==
    LET relevant == relevant_md5(lines, file)
    IN IF Len(relevant) # 1
       THEN RaiseFormattedWith(<<"C","o","u","l","d"," ","n","o","t"," ","f","i","n","d"," ","m","d","5"," ","h","a","s","h"," ","f","o","r"," ","%","s"," ","i","n"," ","%","s">>, file, url)
       ELSE LET correct_hash == split_on(relevant[1], " ")[1]
            IN IF correct_hash = digest THEN Return(path)
               ELSE RaiseFormattedWith(<<"M","D","5"," ","c","h","e","c","k","s","u","m","s"," ","d","o"," ","n","o","t"," ","m","a","t","c","h","."," ","E","x","p","e","c","t","e","d"," ","%","s",","," ","g","o","t"," ","%","s">>,
                                       correct_hash, digest)

\* the path of the temporary file urllib.urlretrieve downloads to
TmpArchivePath == <<"t","m","p","f","i","l","e">>

\* the answers typed at the license prompt
ResponseSamples == {<<>>, <<"y">>, <<"Y">>, <<"n">>, <<"N">>, <<"y","e","s">>, <<" ","y">>}

\* the manifests the server may send, as lines: empty; the archive with the
\* digest of the new or of the old release, in md5sum's text and binary form;
\* another file before the archive; the archive twice; a file whose name ends
\* in the archive's name; the archive's name alone
ManifestSamples(file) == {
    <<>>,
    << md5_hexdigest(ArchiveNew) \o <<" "," ">> \o file >>,
    << md5_hexdigest(ArchiveOld) \o <<" "," ">> \o file >>,
    << md5_hexdigest(ArchiveNew) \o <<" ","*">> \o file >>,
    << md5_hexdigest(ArchiveNew) \o <<" "," ","i","c","u","4","c","-","d","o","c","s",".","z","i","p">>,
       md5_hexdigest(ArchiveOld) \o <<" "," ">> \o file >>,
    << md5_hexdigest(ArchiveNew) \o <<" "," ">> \o file,
       md5_hexdigest(ArchiveOld) \o <<" "," ">> \o file >>,
    << md5_hexdigest(ArchiveOld) \o <<" "," ","x">> \o file >>,
    << file >> }

\* the text of a manifest: each line ended by "\n"
RECURSIVE ManifestText(_)
ManifestText(lines) ==
    IF lines = <<>> THEN <<>> ELSE Head(lines) \o <<"\n">> \o ManifestText(Tail(lines))

-----------------------------------------------------------------------------
(* main, download_icu and extract_icu as the steps of one process; when it
   has ended the script may be run again on the same file system *)

\* the local archives -a/--archive may name, and the path of no file
LocalArchives ==
    (<<"n","e","w",".","t","g","z">> :> ArchiveNew) @@ (<<"c","u","t",".","t","g","z">> :> ArchiveCut)
    @@ (<<"b","a","d",".","t","g","z">> :> ArchiveBad) @@ (<<"f","l","a","t",".","t","g","z">> :> ArchiveFlat)

\* the archives the server may send
ServedArchives == {ArchiveNew, ArchiveOld, ArchiveCut}

NoSuchArchive == <<"n","o","n","e",".","t","g","z">>

ArgSamples ==
    {[yes |-> y, version |-> v, icu_root |-> IcuRootArg, archive |-> a] :
        y \in BOOLEAN, v \in VersionSamples,
        a \in {NoPath} \cup {Path(p) : p \in DOMAIN LocalArchives \cup {NoSuchArchive}}}

\* the state of a process that has parsed its command line
Started ==
    /\ pc' = "main"
    /\ args' \in ArgSamples
    /\ prompts' = 0
    /\ response' = NoResponse
    /\ requests' = <<>>
    /\ download' = <<>>
    /\ checksum' = <<>>
    /\ md5s' = <<>>
    /\ archive_path' = NoPath
    /\ calls' = <<>>
    /\ dep_i' = 0
    /\ exit' = NotCalled

InitMain ==
    /\ os_name \in OsNames
    /\ fs = [files |-> LocalArchives,
             dirs  |-> Ancestors(ChakraIcuRoot) \cup Ancestors(IcuRootArg)]
    /\ fs0 = fs
    /\ call = [fn |-> "main", icuroot |-> IcuSourcesRoot, path |-> <<>>, tokens |-> <<>>]
    /\ ret = NotCalled
    /\ pc = "main"
    /\ args \in ArgSamples
    /\ prompts = 0 /\ response = NoResponse /\ requests = <<>> /\ download = <<>>
    /\ checksum = <<>> /\ md5s = <<>> /\ archive_path = NoPath /\ calls = <<>>
    /\ dep_i = 0
    /\ exit = NotCalled

Ended == pc \in {"done", "Declined", "Failed", "ChecksumNotFound", "ChecksumMismatch"}

\* the script is run again
Rerun ==
    /\ Ended
    /\ Started
    /\ fs0' = fs
    /\ UNCHANGED <<os_name, fs, call, ret>>

\* a variant that looks at the version only
NeedsDownload_version_only(a) == a.version # <<>>

\* if args.version is not None and args.archive is None; the version has a
\* default and is never None
NeedsDownload(a) == ~a.archive.given

CallOf(fn, path) == [fn |-> fn, path |-> path]

\* archive_path = args.archive, then download_icu or extract_icu is called
Main ==
    /\ pc = "main"
    /\ IF NeedsDownload(args)
       THEN /\ pc' = "AwaitingConsent"
            /\ calls' = Append(calls, CallOf("download_icu", <<>>))
            /\ archive_path' = args.archive
       ELSE /\ pc' = "Extracting"
            /\ calls' = Append(calls, CallOf("extract_icu", args.archive.path))
            /\ archive_path' = args.archive
    /\ UNCHANGED <<os_name, fs, call, ret, args, fs0, prompts, response, requests,
                   download, checksum, md5s, dep_i, exit>>

\* if not yes: the prompt, and sys.exit(0) unless the answer is "", "y" or "Y"
Consent ==
    /\ pc = "AwaitingConsent"
    /\ \/ /\ args.yes
          /\ pc' = "Downloading"
          /\ UNCHANGED <<prompts, response, exit>>
       \/ /\ ~args.yes
          /\ prompts' = prompts + 1
          /\ \E r \in ResponseSamples :
                /\ response' = r
                /\ IF IsDeclined(r)
                   THEN pc' = "Declined" /\ exit' = SystemExit0
                   ELSE pc' = "Downloading" /\ exit' = exit
    /\ UNCHANGED <<os_name, fs, call, ret, args, fs0, requests, download, checksum,
                   md5s, archive_path, calls, dep_i>>

\* urllib.urlretrieve(archive_url), the MD5 digest of the file it wrote, then
\* urllib2.urlopen(md5_url) and the lines of what it read; either request may fail
Download ==
    /\ pc = "Downloading"
    /\ \/ /\ requests' = Append(requests, archive_url(args.version))
          /\ pc' = "Failed"
          /\ exit' = Raise("IOError", <<"s","o","c","k","e","t"," ","e","r","r","o","r">>)
          /\ UNCHANGED <<download, checksum, md5s>>
       \/ /\ \E served \in ServedArchives :
                /\ download' = served
                /\ checksum' = md5_hexdigest(served)
          /\ requests' = requests \o <<archive_url(args.version), md5_url(args.version)>>
          /\ \/ /\ pc' = "Failed"
                /\ exit' = Raise("URLError", <<"u","r","l","o","p","e","n"," ","e","r","r","o","r">>)
                /\ md5s' = md5s
             \/ /\ \E lines \in ManifestSamples(archive_file(args.version)) :
                      md5s' = split_on(ManifestText(lines), "\n")
                /\ pc' = "ChecksumFetched"
                /\ exit' = exit
    /\ UNCHANGED <<os_name, fs, call, ret, args, fs0, prompts, response,
                   archive_path, calls, dep_i>>

\* the line of the manifest for the archive is looked up and its digest compared
Verify ==
    /\ pc = "ChecksumFetched"
    /\ LET r == verify_md5(md5s, archive_file(args.version), md5_url(args.version),
                           checksum, TmpArchivePath)
       IN IF r.kind = "return"
          THEN pc' = "Verified" /\ exit' = exit
          ELSE /\ pc' = IF Len(relevant_md5(md5s, archive_file(args.version))) # 1
                        THEN "ChecksumNotFound" ELSE "ChecksumMismatch"
               /\ exit' = r
    /\ UNCHANGED <<os_name, fs, call, ret, args, fs0, prompts, response, requests,
                   download, checksum, md5s, archive_path, calls, dep_i>>

\* download_icu returns the path of the downloaded file and main calls extract_icu
Verified ==
    /\ pc = "Verified"
    /\ archive_path' = Path(TmpArchivePath)
    /\ calls' = Append(calls, CallOf("extract_icu", TmpArchivePath))
    /\ pc' = "Extracting"
    /\ UNCHANGED <<os_name, fs, call, ret, args, fs0, prompts, response, requests,
                   download, checksum, md5s, dep_i, exit>>

\* tempdir = os.path.normpath(os.path.join(icuroot, "temp"))
tempdir(icuroot) == normpath(path_join(icuroot, <<"t","e","m","p">>))

\* icu_folder = os.path.join(icuroot, "icu")
icu_folder(icuroot) == path_join(icuroot, <<"i","c","u">>)

\* whether a file can be opened at the archive path
ArchiveExists == archive_path.path = TmpArchivePath \/ isfile(archive_path.path)

\* the archive at the archive path
ArchiveContent == IF archive_path.path = TmpArchivePath THEN download
                  ELSE fs.files[archive_path.path]

\* with opener(archive_path, "r") as archive: archive.extractall(tempdir)
ExtractAll ==
    /\ pc = "Extracting"
    /\ IF ~ArchiveExists
       THEN /\ fs' = fs
            /\ pc' = "Failed"
            /\ exit' = Raise("IOError", <<"N","o"," ","s","u","c","h"," ","f","i","l","e"," ","o","r"," ","d","i","r","e","c","t","o","r","y">>)
       ELSE IF ArchiveContent.readable < 0
       THEN /\ fs' = fs
            /\ pc' = "Failed"
            /\ exit' = Raise("ReadError", <<"f","i","l","e"," ","c","o","u","l","d"," ","n","o","t"," ","b","e"," ","o","p","e","n","e","d"," ","s","u","c","c","e","s","s","f","u","l","l","y">>)
       ELSE /\ fs' = extractall(fs, ArchiveContent, tempdir(args.icu_root))
            /\ IF ArchiveContent.readable < Len(ArchiveContent.members)
               THEN pc' = "Failed" /\ exit' = Raise("IOError", <<"u","n","e","x","p","e","c","t","e","d"," ","e","n","d"," ","o","f"," ","d","a","t","a">>)
               ELSE pc' = "RemovingOld" /\ exit' = exit
    /\ UNCHANGED <<os_name, call, ret, args, fs0, prompts, response, requests,
                   download, checksum, md5s, archive_path, calls, dep_i>>

\* if os.path.isdir(icu_folder): shutil.rmtree(icu_folder)
RemoveOld ==
    /\ pc = "RemovingOld"
    /\ fs' = IF isdir(icu_folder(args.icu_root))
             THEN rmtree(fs, icu_folder(args.icu_root)) ELSE fs
    /\ pc' = "Moving"
    /\ UNCHANGED <<os_name, call, ret, args, fs0, prompts, response, requests,
                   download, checksum, md5s, archive_path, calls, dep_i, exit>>

\* shutil.move(os.path.join(tempdir, "icu"), icu_folder)
MoveIcu ==
    /\ pc = "Moving"
    /\ LET src == path_join(tempdir(args.icu_root), <<"i","c","u">>)
       IN IF isdir(src)
          THEN /\ fs' = move(fs, src, icu_folder(args.icu_root))
               /\ pc' = "RemovingTemp"
               /\ exit' = exit
          ELSE /\ fs' = fs
               /\ pc' = "Failed"
               /\ exit' = Raise("IOError", <<"N","o"," ","s","u","c","h"," ","f","i","l","e"," ","o","r"," ","d","i","r","e","c","t","o","r","y">>)
    /\ UNCHANGED <<os_name, call, ret, args, fs0, prompts, response, requests,
                   download, checksum, md5s, archive_path, calls, dep_i>>

\* shutil.rmtree(tempdir)
RemoveTemp ==
    /\ pc = "RemovingTemp"
    /\ fs' = rmtree(fs, tempdir(args.icu_root))
    /\ pc' = "Extracted"
    /\ UNCHANGED <<os_name, call, ret, args, fs0, prompts, response, requests,
                   download, checksum, md5s, archive_path, calls, dep_i, exit>>

\* if os.name == "nt": create_msvc_props(...); otherwise main returns
Extracted ==
    /\ pc = "Extracted"
    /\ IF os_name = "nt"
       THEN pc' = "PropsOpen" /\ exit' = exit
       ELSE pc' = "done" /\ exit' = ReturnNone
    /\ UNCHANGED <<os_name, fs, call, ret, args, fs0, prompts, response, requests,
                   download, checksum, md5s, archive_path, calls, dep_i>>

NextMain ==
    \/ Main \/ Consent \/ Download \/ Verify \/ Verified
    \/ ExtractAll \/ RemoveOld \/ MoveIcu \/ RemoveTemp \/ Extracted
    \/ PropsOpen \/ PropsAdd \/ PropsMeta
    \/ Rerun

SpecMain == InitMain /\ [][NextMain]_vars

-----------------------------------------------------------------------------
(* the download, the consent and the choice of the archive *)

ExtractCalls == SelectSeq(calls, LAMBDA c : c.fn = "extract_icu")

DownloadCalls == SelectSeq(calls, LAMBDA c : c.fn = "download_icu")

EndsWith(line, file) ==
    Len(line) >= Len(file) /\ SubSeq(line, Len(line) - Len(file) + 1, Len(line)) = file

\* the lines of the manifest whose trailing text is the name of the archive
MatchingLines == {i \in DOMAIN md5s : EndsWith(md5s[i], archive_file(args.version))}

\* the text of a line before its first space
EmbeddedChecksum(line) ==
    IF \E i \in DOMAIN line : line[i] = " "
    THEN SubSeq(line, 1, (CHOOSE i \in DOMAIN line :
                              line[i] = " " /\ \A j \in 1..(i - 1) : line[j] # " ") - 1)
    ELSE line

ManifestAccepts ==
    /\ Cardinality(MatchingLines) = 1
    /\ EmbeddedChecksum(md5s[CHOOSE i \in MatchingLines : TRUE]) = checksum

VerificationFailed == pc \in {"ChecksumMismatch", "ChecksumNotFound"}

C1_Step ==
    /\ pc = "AwaitingConsent" => pc' \in {"Downloading", "Declined"}
    /\ pc = "Downloading" => pc' \in {"ChecksumFetched", "Failed"}
    /\ pc = "ChecksumFetched" =>
          IF ManifestAccepts THEN pc' = "Verified" ELSE VerificationFailed'
    /\ pc = "Verified" => pc' = "Extracting"
    /\ (pc' = "Extracting" /\ ~args'.archive.given) => pc = "Verified"
    /\ VerificationFailed => pc' = "main"
    /\ VerificationFailed' =>
          /\ exit'.kind = "raise"
          /\ ExtractCalls' = <<>>
          /\ fs' = fs0'

\* C1: a run that downloads goes AwaitingConsent -> Downloading ->
\* ChecksumFetched -> Verified or a verification failure; extract_icu starts
\* only from Verified, which is entered only if exactly one line of the
\* manifest ends in the archive's name and the checksum in that line is the
\* one computed over the download; otherwise the process aborts with nothing
\* extracted, <root>/icu as it was and no property file written
C1_ExtractionOnlyWhenVerified == [][C1_Step]_vars

C1_Witness ==
    /\ pc = "ChecksumMismatch"
    /\ isdir(icu_folder(args.icu_root))
    /\ Cardinality(MatchingLines) = 1
    /\ calls = <<CallOf("download_icu", <<>>)>>

NotFoundMessage ==
    PyFormat(<<"C","o","u","l","d"," ","n","o","t"," ","f","i","n","d"," ","m","d","5"," ","h","a","s","h"," ","f","o","r"," ","%","s"," ","i","n"," ","%","s">>,
             <<archive_file(args.version), md5_url(args.version)>>).value

MismatchMessage ==
    PyFormat(<<"M","D","5"," ","c","h","e","c","k","s","u","m","s"," ","d","o"," ","n","o","t"," ","m","a","t","c","h","."," ","E","x","p","e","c","t","e","d"," ","%","s",","," ","g","o","t"," ","%","s">>,
             <<EmbeddedChecksum(md5s[CHOOSE i \in MatchingLines : TRUE]), checksum>>).value

\* C2: with zero or several matching lines download_icu fails with an error
\* that says the checksum was not found and names the archive file and the
\* manifest URL; with one matching line of another checksum it fails with an
\* error that says the checksums do not match and names both; the two are
\* never the same outcome
C2_DistinctVerificationErrors ==
    /\ pc = "ChecksumNotFound" =>
          exit.kind = "raise" /\ exit.message = NotFoundMessage
    /\ pc = "ChecksumMismatch" =>
          exit.kind = "raise" /\ exit.message = MismatchMessage

ConsentAnswers == {<<>>, <<"y">>, <<"Y">>}

Asked == prompts > 0

\* C3: without -y an answer other than "", "y" or "Y" ends the process with
\* exit status 0 before any request is made, with nothing extracted, removed
\* or written; with -y there is no prompt and the download goes ahead
C3_DeclinedConsentExitsCleanly ==
    /\ (~args.yes /\ Asked /\ response \notin ConsentAnswers) =>
          /\ pc = "Declined"
          /\ exit = SystemExit0
          /\ requests = <<>>
          /\ ExtractCalls = <<>>
          /\ fs = fs0
    /\ pc = "Declined" => (~args.yes /\ Asked /\ response \notin ConsentAnswers)
    /\ (~args.yes /\ requests # <<>>) => (Asked /\ response \in ConsentAnswers)
    /\ args.yes => (prompts = 0 /\ pc # "Declined")

C3_Witness ==
    /\ pc = "Declined"
    /\ response = <<"y","e","s">>
    /\ isdir(icu_folder(args.icu_root))

\* C4: with -a/--archive download_icu is never called (no prompt, no request,
\* no checksum compared) and extract_icu gets the path given; without it
\* download_icu is called exactly once and extract_icu gets the path it returns
C4_ArchiveWinsOverDownload ==
    /\ args.archive.given =>
          /\ DownloadCalls = <<>>
          /\ prompts = 0 /\ requests = <<>> /\ md5s = <<>> /\ checksum = <<>>
          /\ pc # "main" => calls = <<CallOf("extract_icu", args.archive.path)>>
    /\ ~args.archive.given =>
          /\ pc # "main" => Len(DownloadCalls) = 1 /\ calls[1].fn = "download_icu"
          /\ ExtractCalls \in {<<>>, <<CallOf("extract_icu", TmpArchivePath)>>}
          /\ ExtractCalls # <<>> => ManifestAccepts
          /\ pc \in {"Extracting", "RemovingOld", "Moving", "RemovingTemp", "Extracted"} =>
                ExtractCalls # <<>>

C4_Witness ==
    /\ args.archive.given
    /\ pc = "Extracted"
    /\ calls = <<CallOf("extract_icu", args.archive.path)>>
    /\ fs # fs0

-----------------------------------------------------------------------------
(* extract_icu *)

\* the files of f below directory d, with their content
FilesUnder(f, d) == [p \in {q \in DOMAIN f.files : IsUnder(q, d)} |-> f.files[p]]

\* the top-level icu folder of the archive, as files of <root>/icu
ArchiveIcuFolder ==
    LET ms   == ArchiveContent.members
        InIcu(k) == Len(ms[k].name) > 4 /\ SubSeq(ms[k].name, 1, 4) = <<"i","c","u","/">>
        Dest(k) == path_join(args.icu_root, normpath(ms[k].name))
        ks   == {k \in DOMAIN ms : InIcu(k)}
    IN [p \in {Dest(k) : k \in ks} |-> ms[CHOOSE k \in ks : Dest(k) = p].content]

\* every member of the archive is below <root>/temp
FullyExtracted ==
    \A k \in DOMAIN ArchiveContent.members :
        isfile(path_join(tempdir(args.icu_root), normpath(ArchiveContent.members[k].name)))

IcuUnchanged ==
    /\ FilesUnder(fs, icu_folder(args.icu_root)) = FilesUnder(fs0, icu_folder(args.icu_root))
    /\ {d \in fs.dirs : IsUnder(d, icu_folder(args.icu_root))}
         = {d \in fs0.dirs : IsUnder(d, icu_folder(args.icu_root))}

ExtractionFailed ==
    /\ pc = "Failed"
    /\ ExtractCalls # <<>>
    /\ exit.type \in {"ReadError", "IOError"}
    /\ exit.message # <<"N","o"," ","s","u","c","h"," ","f","i","l","e"," ","o","r"," ","d","i","r","e","c","t","o","r","y">>

\* C8: extract_icu extracts the whole archive into <root>/temp, then removes
\* an existing <root>/icu, then moves <root>/temp/icu to <root>/icu, then
\* removes <root>/temp; a failed extraction leaves <root>/icu as it was, and
\* after a successful run <root>/icu holds the archive's icu folder and
\* nothing else, and <root>/temp is gone
C8_ExtractOrderAndResult ==
    /\ pc = "Extracting" => IcuUnchanged
    /\ pc = "RemovingOld" => (FullyExtracted /\ IcuUnchanged)
    /\ pc = "Moving" => (FullyExtracted /\ ~isdir(icu_folder(args.icu_root)))
    /\ ExtractionFailed => IcuUnchanged
    /\ pc = "Extracted" =>
          /\ FilesUnder(fs, icu_folder(args.icu_root)) = ArchiveIcuFolder
          /\ ~isdir(tempdir(args.icu_root))
          /\ DOMAIN FilesUnder(fs, tempdir(args.icu_root)) = {}

====
